---- MODULE Spec2Model ----
(***************************************************************************)
(* User manager console application: a JSON backing file, validation,      *)
(* the CRUD repository functions and the interactive menu loop.            *)
(*                                                                         *)
(* Two complete programs of the repository are modelled:                   *)
(*   - src/unnamed/part_000 (validation, lazy file creation, id search),   *)
(*     driven at the repository level (Spec) and at the menu level         *)
(*     (ShellSpec);                                                        *)
(*   - src/unnamed/part_001 (no validation, saveUsers swallows write       *)
(*     errors, search on name/email only), driven at the menu level        *)
(*     (ShellSpecP1).  Its loadUsers is the one of src/src/main.ts.        *)
(*                                                                         *)
(* A JavaScript string is a sequence of one-character strings, so that     *)
(* trim, toLowerCase, includes and the e-mail regular expression are       *)
(* computed rather than assumed.                                           *)
(***************************************************************************)
EXTENDS Integers, Sequences, FiniteSets, TLC

VARIABLES file, nextId, last, origin, status

vars == <<file, nextId, last, origin, status>>

\* Bounds of the model: records a store may hold, ids randomUUID may hand out.
MaxUsers == 2
MaxIds == 3

-----------------------------------------------------------------------------
(* Strings                                                                 *)

Digits == {"0", "1", "2", "3", "4", "5", "6", "7", "8", "9"}

\* String.prototype.trim strips white space at both ends.
IsSpace(c) == c = " "

SetMin(S) == CHOOSE x \in S : \A y \in S : x <= y
SetMax(S) == CHOOSE x \in S : \A y \in S : x >= y

trim(s) ==
  LET keep == {i \in 1..Len(s) : ~IsSpace(s[i])}
  IN IF keep = {} THEN <<>> ELSE SubSeq(s, SetMin(keep), SetMax(keep))

LowerChar(c) ==
  CASE c = "A" -> "a"
    [] c = "B" -> "b"
    [] c = "U" -> "u"
    [] c = "X" -> "x"
    [] OTHER -> c

toLowerCase(s) == [i \in 1..Len(s) |-> LowerChar(s[i])]

\* String.prototype.includes: k occurs in s as a contiguous substring.
includes(s, k) ==
  \E i \in 0..Len(s) : i + Len(k) <= Len(s) /\ SubSeq(s, i + 1, i + Len(k)) = k

-----------------------------------------------------------------------------
(* Validation (part_000)                                                   *)

\* /^[^\s@]+@[^\s@]+\.[^\s@]+$/
isValidEmail(email) ==
  \E i \in 1..Len(email) : \E j \in 1..Len(email) :
    /\ email[i] = "@"
    /\ email[j] = "."
    /\ 1 < i
    /\ i + 1 < j
    /\ j < Len(email)
    /\ \A k \in 1..Len(email) :
         /\ ~IsSpace(email[k])
         /\ (email[k] = "@" => k = i)

\* requireNonEmpty: the trimmed value, or an error when it is empty.
requireNonEmpty(input) ==
  LET value == trim(input)
  IN [err |-> (value = <<>>), value |-> value]

DigitVal(c) ==
  CASE c = "0" -> 0 [] c = "1" -> 1 [] c = "2" -> 2 [] c = "3" -> 3
    [] c = "4" -> 4 [] c = "5" -> 5 [] c = "6" -> 6 [] c = "7" -> 7
    [] c = "8" -> 8 [] c = "9" -> 9 [] OTHER -> 0

RECURSIVE DecVal(_)
DecVal(s) ==
  IF s = <<>> THEN 0
  ELSE 10 * DecVal(SubSeq(s, 1, Len(s) - 1)) + DigitVal(s[Len(s)])

AllDigits(s) == \A i \in 1..Len(s) : s[i] \in Digits

AbsentAge == [tag |-> "absent", n |-> 0]
NaNAge == [tag |-> "nan", n |-> 0]
NullAge == [tag |-> "null", n |-> 0]
FracAge == [tag |-> "frac", n |-> 0]
NumAge(n) == [tag |-> "num", n |-> n]

\* Number(s) of a trimmed, non-empty string, for the decimal grammar
\* [+-] digits [. digits]: an integer, a non-integer ("frac") or NaN.
Number(s) ==
  LET signed == s[1] \in {"-", "+"}
      body == IF signed THEN Tail(s) ELSE s
      sign == IF s[1] = "-" THEN -1 ELSE 1
      dots == {i \in 1..Len(body) : body[i] = "."}
  IN IF body # <<>> /\ AllDigits(body) THEN NumAge(sign * DecVal(body))
     ELSE IF Cardinality(dots) = 1
       THEN LET d == CHOOSE i \in dots : TRUE
                ip == SubSeq(body, 1, d - 1)
                fp == SubSeq(body, d + 1, Len(body))
            IN IF AllDigits(ip) /\ AllDigits(fp) /\ Len(ip) + Len(fp) > 0
                 THEN IF DecVal(fp) = 0 THEN NumAge(sign * DecVal(ip))
                      ELSE FracAge
                 ELSE NaNAge
       ELSE NaNAge

\* parseOptionalAge: undefined for a blank input, else an integer in 0..150.
parseOptionalAge(input) ==
  LET trimmed == trim(input)
      n == Number(trimmed)
  IN IF trimmed = <<>> THEN [err |-> FALSE, age |-> AbsentAge]
     ELSE IF n.tag # "num" \/ n.n < 0 \/ n.n > 150
       THEN [err |-> TRUE, age |-> AbsentAge]
       ELSE [err |-> FALSE, age |-> n]

-----------------------------------------------------------------------------
(* The backing file                                                        *)

\* kind: absent | garbage (not JSON) | nonarray (JSON, not an array) | array.
\* pretty: the text is exactly JSON.stringify(users, null, 2).
NoFile == [kind |-> "absent", pretty |-> TRUE, users |-> <<>>]
GarbageFile == [kind |-> "garbage", pretty |-> FALSE, users |-> <<>>]
NonArrayFile == [kind |-> "nonarray", pretty |-> FALSE, users |-> <<>>]
ArrayFile(pretty, users) == [kind |-> "array", pretty |-> pretty, users |-> users]

User(id, name, email, age) == [id |-> id, name |-> name, email |-> email, age |-> age]

\* JSON.stringify(users, null, 2): an undefined age is left out, NaN is
\* written as null; the text is the canonical two-space layout.
JsonAge(age) == IF age.tag = "nan" THEN NullAge ELSE age
stringify(users) ==
  ArrayFile(TRUE, [i \in 1..Len(users) |->
                     [users[i] EXCEPT !.age = JsonAge(users[i].age)]])

\* Outcome of the system calls of one operation.
IOOutcomes == {"ok", "readErr", "writeErr", "writeTorn"}

\* A slip in saveUsers: JSON.stringify(users) without the indentation
\* arguments, which writes the compact layout.
saveUsers_compact(f, users, io) ==
  IF io = "writeErr" THEN [file |-> f, err |-> "io"]
  ELSE IF io = "writeTorn" THEN [file |-> GarbageFile, err |-> "io"]
  ELSE [file |-> ArrayFile(FALSE, stringify(users).users), err |-> "none"]

\* saveUsers (part_000): writeFile; a failure propagates.  A failed write
\* leaves the old text or, once the file was truncated, a torn one.
saveUsers(f, users, io) ==
  IF io = "writeErr" THEN [file |-> f, err |-> "io"]
  ELSE IF io = "writeTorn" THEN [file |-> GarbageFile, err |-> "io"]
  ELSE [file |-> stringify(users), err |-> "none"]

\* A slip in loadUsers: ENOENT returns the empty list without creating the
\* file.
loadUsers_nocreate(f, io) ==
  IF f.kind = "absent" THEN [file |-> f, err |-> "none", users |-> <<>>]
  ELSE IF io = "readErr" THEN [file |-> f, err |-> "io", users |-> <<>>]
  ELSE IF f.kind = "garbage" THEN [file |-> f, err |-> "parse", users |-> <<>>]
  ELSE IF f.kind = "nonarray" THEN [file |-> f, err |-> "none", users |-> <<>>]
  ELSE [file |-> f, err |-> "none", users |-> f.users]

\* loadUsers (part_000): ENOENT creates the file; JSON.parse errors and other
\* read errors propagate; a non-array parses to the empty list.
loadUsers(f, io) ==
  IF f.kind = "absent"
    THEN LET s == saveUsers(f, <<>>, io)
         IN [file |-> s.file, err |-> s.err, users |-> <<>>]
  ELSE IF io = "readErr" THEN [file |-> f, err |-> "io", users |-> <<>>]
  ELSE IF f.kind = "garbage" THEN [file |-> f, err |-> "parse", users |-> <<>>]
  ELSE IF f.kind = "nonarray" THEN [file |-> f, err |-> "none", users |-> <<>>]
  ELSE [file |-> f, err |-> "none", users |-> f.users]

-----------------------------------------------------------------------------
(* Repository (part_000).  Each function yields the file it leaves, the    *)
(* error it throws ("none" when it returns) and the records it returns.    *)

Result(f, err, ret) == [file |-> f, err |-> err, ret |-> ret]

SameEmail(a, b) == toLowerCase(a) = toLowerCase(b)

addUser(f, name, email, age, id, io) ==
  LET l == loadUsers(f, io)
      user == User(id, name, email, age)
      s == saveUsers(l.file, Append(l.users, user), io)
  IN IF l.err # "none" THEN Result(l.file, l.err, <<>>)
     ELSE IF ~isValidEmail(email) THEN Result(l.file, "validation", <<>>)
     ELSE IF \E i \in 1..Len(l.users) : SameEmail(l.users[i].email, email)
       THEN Result(l.file, "conflict", <<>>)
     ELSE Result(s.file, s.err, IF s.err = "none" THEN <<user>> ELSE <<>>)

\* Partial<Omit<User, "id">>: which keys are present, and their values.
Updates(hasName, name, hasEmail, email, hasAge, age) ==
  [hasName |-> hasName, name |-> name, hasEmail |-> hasEmail, email |-> email,
   hasAge |-> hasAge, age |-> age]

NoUpdates == Updates(FALSE, <<>>, FALSE, <<>>, FALSE, AbsentAge)

\* A slip in the spread: every field is taken from updates, present or not.
spread_all(user, updates) ==
  User(user.id, updates.name, updates.email, updates.age)

\* { ...user, ...updates }
spread(user, updates) ==
  User(user.id,
       IF updates.hasName THEN updates.name ELSE user.name,
       IF updates.hasEmail THEN updates.email ELSE user.email,
       IF updates.hasAge THEN updates.age ELSE user.age)

\* users.findIndex(u => u.id === id), 0 for -1.
findIndex(users, id) ==
  LET hits == {i \in 1..Len(users) : users[i].id = id}
  IN IF hits = {} THEN 0 ELSE SetMin(hits)

\* if (updates.email): present and not the empty string.
EmailTruthy(updates) == updates.hasEmail /\ updates.email # <<>>

updateUser(f, id, updates, io) ==
  LET l == loadUsers(f, io)
      idx == findIndex(l.users, id)
      updated == spread(l.users[idx], updates)
      s == saveUsers(l.file, [l.users EXCEPT ![idx] = updated], io)
  IN IF l.err # "none" THEN Result(l.file, l.err, <<>>)
     ELSE IF idx = 0 THEN Result(l.file, "notfound", <<>>)
     ELSE IF EmailTruthy(updates) /\ ~isValidEmail(updates.email)
       THEN Result(l.file, "validation", <<>>)
     ELSE IF /\ EmailTruthy(updates)
             /\ \E i \in 1..Len(l.users) :
                  /\ SameEmail(l.users[i].email, updates.email)
                  /\ l.users[i].id # id
       THEN Result(l.file, "conflict", <<>>)
     ELSE Result(s.file, s.err, IF s.err = "none" THEN <<updated>> ELSE <<>>)

\* A slip in deleteUser: the unfiltered list is saved.
deleteUser_unfiltered(f, id, io) ==
  LET l == loadUsers(f, io)
      Other(u) == u.id # id
      filtered == SelectSeq(l.users, Other)
      s == saveUsers(l.file, l.users, io)
  IN IF l.err # "none" THEN Result(l.file, l.err, <<>>)
     ELSE IF Len(filtered) = Len(l.users) THEN Result(l.file, "notfound", <<>>)
     ELSE Result(s.file, s.err, <<>>)

deleteUser(f, id, io) ==
  LET l == loadUsers(f, io)
      Other(u) == u.id # id
      filtered == SelectSeq(l.users, Other)
      s == saveUsers(l.file, filtered, io)
  IN IF l.err # "none" THEN Result(l.file, l.err, <<>>)
     ELSE IF Len(filtered) = Len(l.users) THEN Result(l.file, "notfound", <<>>)
     ELSE Result(s.file, s.err, <<>>)

searchUsers(f, keyword, io) ==
  LET l == loadUsers(f, io)
      k == toLowerCase(trim(keyword))
      Match(u) == \/ includes(toLowerCase(u.id), k)
                  \/ includes(toLowerCase(u.name), k)
                  \/ includes(toLowerCase(u.email), k)
  IN IF l.err # "none" THEN Result(l.file, l.err, <<>>)
     ELSE IF k = <<>> THEN Result(l.file, "none", l.users)
     ELSE Result(l.file, "none", SelectSeq(l.users, Match))

listUsers(f, io) ==
  LET l == loadUsers(f, io)
  IN Result(l.file, l.err, l.users)

-----------------------------------------------------------------------------
(* Menu handlers (part_000).  A handler catches every error thrown inside  *)
(* it and prints the message; err is the error it caught.                  *)

handleAdd(f, nameRaw, emailRaw, ageRaw, id, io) ==
  LET name == requireNonEmpty(nameRaw)
      email == requireNonEmpty(emailRaw)
      age == parseOptionalAge(ageRaw)
  IN IF name.err \/ email.err \/ age.err THEN Result(f, "validation", <<>>)
     ELSE addUser(f, name.value, email.value, age.age, id, io)

\* The updates object handleUpdate builds from the three answers.
shellUpdates(nameRaw, emailRaw, ageRaw) ==
  Updates(trim(nameRaw) # <<>>, trim(nameRaw),
          trim(emailRaw) # <<>>, trim(emailRaw),
          trim(ageRaw) # <<>>, parseOptionalAge(ageRaw).age)

\* "nochange": no key was supplied, the handler returns before any call.
handleUpdate(f, idRaw, nameRaw, emailRaw, ageRaw, io) ==
  LET id == requireNonEmpty(idRaw)
      age == parseOptionalAge(ageRaw)
      updates == shellUpdates(nameRaw, emailRaw, ageRaw)
  IN IF id.err \/ age.err THEN Result(f, "validation", <<>>)
     ELSE IF updates = NoUpdates THEN Result(f, "nochange", <<>>)
     ELSE updateUser(f, id.value, updates, io)

handleDelete(f, idRaw, io) ==
  LET id == requireNonEmpty(idRaw)
  IN IF id.err THEN Result(f, "validation", <<>>)
     ELSE deleteUser(f, id.value, io)

handleSearch(f, k, io) == searchUsers(f, k, io)

-----------------------------------------------------------------------------
(* Inputs                                                                  *)

\* randomUUID(): the n-th id handed out; ids are lower-case and distinct.
IdOf(n) == <<"u", CHOOSE c \in Digits : DigitVal(c) = n>>

\* A record written by another program before the first run.
OtherId == <<"u", "0">>

sAnn == <<"A", "n", "n">>
sU1 == <<"u", "1">>
sEmailA == <<"a", "@", "x", ".", "c">>
sEmailAUpper == <<"A", "@", "X", ".", "c">>
sEmailU1 == <<"u", "1", "@", "x", ".", "c">>
sBad == <<"b", "a", "d">>

InitFiles ==
  { NoFile, ArrayFile(TRUE, <<>>), GarbageFile, NonArrayFile,
    ArrayFile(FALSE, <<User(OtherId, sAnn, sEmailA, NumAge(30))>>),
    ArrayFile(TRUE, <<User(OtherId, <<>>, sBad, NumAge(30))>>) }

OriginOf(f) ==
  IF f.kind = "absent" THEN "absent"
  ELSE IF f.kind = "array" /\ f.users = <<>> THEN "empty"
  ELSE "other"

\* Arguments of the direct repository calls.
RepoNames == {sAnn, sU1}
RepoEmails == {sEmailA, sEmailAUpper, sEmailU1, <<>>}
RepoAges == {AbsentAge, NumAge(30)}
TargetIds == {IdOf(n) : n \in 1..MaxIds} \cup {OtherId}
RepoUpdates ==
  {NoUpdates}
    \cup {Updates(TRUE, n, FALSE, <<>>, FALSE, AbsentAge) : n \in RepoNames}
    \cup {Updates(FALSE, <<>>, TRUE, e, FALSE, AbsentAge) : e \in RepoEmails}
    \cup {Updates(FALSE, <<>>, FALSE, <<>>, TRUE, a) : a \in RepoAges}
    \cup {Updates(TRUE, sU1, TRUE, sEmailAUpper, TRUE, NumAge(30))}
Keywords == {<<>>, <<" ">>, <<" ", "A", "N", "n", " ">>, sU1, <<"U", "1">>, <<"@", "x">>, <<"z">>}

\* Answers typed at the prompts of the menu.
NamesRaw == {<<>>, <<" ", "A", "n", "n", " ">>}
EmailsRaw == {<<>>, <<" ", "A", "@", "X", ".", "c">>, sEmailU1, sBad}
AgesRaw == {<<>>, <<" ", "3", "0">>, <<"1", "5", "1">>}
IdsRaw == {<<>>, <<" ", "u", "1", " ">>, OtherId}
Choices ==
  {<<"1">>, <<"2">>, <<" ", "2">>, <<"3">>, <<"4">>, <<"4", " ">>, <<"5">>, <<"0">>, <<"9">>, <<>>}

-----------------------------------------------------------------------------
(* State machine: direct repository calls on part_000                      *)

Last(op, err) == [op |-> op, err |-> err]

Init ==
  /\ file \in InitFiles
  /\ nextId = 1
  /\ last = Last("init", "none")
  /\ origin = OriginOf(file)
  /\ status = "running"

\* The model stops adding when the store or the id supply is at its bound.
CanGrow == nextId <= MaxIds /\ Len(file.users) < MaxUsers

Add ==
  /\ CanGrow
  /\ \E name \in RepoNames, email \in RepoEmails, age \in RepoAges, io \in IOOutcomes :
       LET r == addUser(file, name, email, age, IdOf(nextId), io)
       IN /\ file' = r.file
          /\ nextId' = IF r.err = "none" THEN nextId + 1 ELSE nextId
          /\ last' = Last("add", r.err)
  /\ UNCHANGED <<origin, status>>

Update ==
  /\ \E id \in TargetIds, updates \in RepoUpdates, io \in IOOutcomes :
       LET r == updateUser(file, id, updates, io)
       IN /\ file' = r.file
          /\ last' = Last("update", r.err)
  /\ UNCHANGED <<nextId, origin, status>>

Delete ==
  /\ \E id \in TargetIds, io \in IOOutcomes :
       LET r == deleteUser(file, id, io)
       IN /\ file' = r.file
          /\ last' = Last("delete", r.err)
  /\ UNCHANGED <<nextId, origin, status>>

Search ==
  /\ \E keyword \in Keywords, io \in IOOutcomes :
       LET r == searchUsers(file, keyword, io)
       IN /\ file' = r.file
          /\ last' = Last("search", r.err)
  /\ UNCHANGED <<nextId, origin, status>>

List ==
  /\ \E io \in IOOutcomes :
       LET r == listUsers(file, io)
       IN /\ file' = r.file
          /\ last' = Last("list", r.err)
  /\ UNCHANGED <<nextId, origin, status>>

Next == Add \/ Update \/ Delete \/ Search \/ List

Spec == Init /\ [][Next]_vars

-----------------------------------------------------------------------------
(* Properties of the repository functions of part_000 (checked under Spec) *)

Ids(users) == {users[i].id : i \in 1..Len(users)}
HasArray == file.kind = "array"
FromEmpty == origin \in {"absent", "empty"}

\* C1 (as stated): starting from an absent or empty backing file, no two
\* records of the persisted store have case-insensitively equal emails.
C1_EmailUnique ==
  (FromEmpty /\ HasArray) =>
    \A i \in 1..Len(file.users) : \A j \in 1..Len(file.users) :
      i # j => ~SameEmail(file.users[i].email, file.users[j].email)

\* C2 (as stated): when the system calls succeed, add with an email equal,
\* ignoring case, to the email of a record of the store fails with the
\* conflict error and leaves the persisted store exactly as it was.
C2_AddConflict ==
  (FromEmpty /\ HasArray) =>
    \A name \in RepoNames : \A email \in RepoEmails : \A age \in RepoAges :
      (\E i \in 1..Len(file.users) : SameEmail(file.users[i].email, email)) =>
        LET r == addUser(file, name, email, age, IdOf(nextId), "ok")
        IN r.err = "conflict" /\ r.file = file

\* C3: a successful update changes only the fields present in updates on the
\* record with that id; its id, the omitted fields, its position, every other
\* record and the length of the store are unchanged.
C3_UpdateFrame ==
  \A id \in TargetIds : \A updates \in RepoUpdates : \A io \in IOOutcomes :
    LET r == updateUser(file, id, updates, io)
        before == file.users
        after == r.file.users
        idx == findIndex(before, id)
    IN r.err = "none" =>
         /\ HasArray /\ r.file.kind = "array"
         /\ idx # 0
         /\ Len(after) = Len(before)
         /\ \A i \in 1..Len(before) : i # idx => after[i] = before[i]
         /\ after[idx].id = before[idx].id
         /\ after[idx].name = IF updates.hasName THEN updates.name ELSE before[idx].name
         /\ after[idx].email = IF updates.hasEmail THEN updates.email ELSE before[idx].email
         /\ after[idx].age = IF updates.hasAge THEN updates.age ELSE before[idx].age
         /\ r.ret = <<after[idx]>>

\* An update of one record of a two-record store has just succeeded.
C3_Witness ==
  /\ last = Last("update", "none")
  /\ HasArray /\ Len(file.users) = 2
  /\ file.users[1].name # file.users[2].name

\* C4 (as stated): after delete(id) succeeds, search(id) returns nothing.
C4_DeleteThenSearchEmpty ==
  \A id \in TargetIds : \A io \in IOOutcomes :
    LET r == deleteUser(file, id, io)
    IN r.err = "none" => searchUsers(r.file, id, "ok").ret = <<>>

\* C4 (amended): after delete(id) succeeds, search(id) succeeds and returns no
\* record with that id; it returns nothing unless the name or the email of a
\* remaining record contains the id.
C4_DeleteThenSearch ==
  \A id \in TargetIds : \A io \in IOOutcomes :
    LET r == deleteUser(file, id, io)
        found == searchUsers(r.file, id, "ok")
        k == toLowerCase(trim(id))
    IN r.err = "none" =>
         /\ found.err = "none"
         /\ id \notin Ids(found.ret)
         /\ (\A i \in 1..Len(r.file.users) :
               /\ ~includes(toLowerCase(r.file.users[i].name), k)
               /\ ~includes(toLowerCase(r.file.users[i].email), k))
            => found.ret = <<>>

\* A delete has just succeeded and removed an id that was handed out, while
\* records remain in the store.
C4_Witness ==
  /\ last = Last("delete", "none")
  /\ HasArray /\ file.users # <<>>
  /\ \E n \in 1..MaxIds : n < nextId /\ IdOf(n) \notin Ids(file.users)

\* C5 (as stated): delete or update with an id no record has fails with the
\* not-found error and leaves the backing file, absent or not, as it was.
C5_NotFoundKeepsFile ==
  \A id \in TargetIds : \A updates \in RepoUpdates :
    (file.kind # "garbage" /\ id \notin Ids(file.users)) =>
      LET d == deleteUser(file, id, "ok")
          u == updateUser(file, id, updates, "ok")
      IN /\ d.err = "notfound" /\ d.file = file
         /\ u.err = "notfound" /\ u.file = file

\* C5 (amended): when the backing file can be read and parsed, delete or
\* update with an id no record has fails with the not-found error; a call
\* that fails so leaves an existing backing file as it was, and leaves an
\* absent one created, holding the empty array.
NotFoundLeaves(r) ==
  r.err = "notfound" =>
    IF file.kind = "absent" THEN r.file = stringify(<<>>) ELSE r.file = file

C5_NotFoundKeepsStore ==
  \A id \in TargetIds : \A updates \in RepoUpdates : \A io \in IOOutcomes :
    LET d == deleteUser(file, id, io)
        u == updateUser(file, id, updates, io)
    IN /\ NotFoundLeaves(d)
       /\ NotFoundLeaves(u)
       /\ (io = "ok" /\ file.kind # "garbage" /\ id \notin Ids(file.users)) =>
            (d.err = "notfound" /\ u.err = "notfound")

\* A delete or update has just failed with not-found on a store that started
\* with no backing file, which now exists and holds the empty array.
C5_Witness ==
  /\ last.op \in {"delete", "update"}
  /\ last.err = "notfound"
  /\ origin = "absent"
  /\ file = stringify(<<>>)

-----------------------------------------------------------------------------
(* State machine: the menu loop of part_000                                *)

Running == status = "running"
Chosen(c) == \E choice \in Choices : trim(choice) = c

\* case "1": await handleAdd()
MenuAdd ==
  /\ Running /\ Chosen(<<"1">>) /\ CanGrow
  /\ \E nameRaw \in NamesRaw, emailRaw \in EmailsRaw, ageRaw \in AgesRaw, io \in IOOutcomes :
       LET r == handleAdd(file, nameRaw, emailRaw, ageRaw, IdOf(nextId), io)
       IN /\ file' = r.file
          /\ nextId' = IF r.err = "none" THEN nextId + 1 ELSE nextId
          /\ last' = Last("add", r.err)
  /\ UNCHANGED <<origin, status>>

\* case "2": await handleUpdate()
MenuUpdate ==
  /\ Running /\ Chosen(<<"2">>)
  /\ \E idRaw \in IdsRaw, nameRaw \in NamesRaw, emailRaw \in EmailsRaw,
        ageRaw \in AgesRaw, io \in IOOutcomes :
       LET r == handleUpdate(file, idRaw, nameRaw, emailRaw, ageRaw, io)
       IN /\ file' = r.file
          /\ last' = Last("update", r.err)
  /\ UNCHANGED <<nextId, origin, status>>

\* case "3": await handleDelete()
MenuDelete ==
  /\ Running /\ Chosen(<<"3">>)
  /\ \E idRaw \in IdsRaw, io \in IOOutcomes :
       LET r == handleDelete(file, idRaw, io)
       IN /\ file' = r.file
          /\ last' = Last("delete", r.err)
  /\ UNCHANGED <<nextId, origin, status>>

\* case "4": await handleSearch()
MenuSearch ==
  /\ Running /\ Chosen(<<"4">>)
  /\ \E k \in Keywords, io \in IOOutcomes :
       LET r == handleSearch(file, k, io)
       IN /\ file' = r.file
          /\ last' = Last("search", r.err)
  /\ UNCHANGED <<nextId, origin, status>>

\* case "5": printUsers(await listUsers()), outside any try: an error leaves
\* mainMenu and loop, and loop().catch exits with status 1.
MenuList ==
  /\ Running /\ Chosen(<<"5">>)
  /\ \E io \in IOOutcomes :
       LET r == listUsers(file, io)
       IN /\ file' = r.file
          /\ last' = Last("list", r.err)
          /\ status' = IF r.err = "none" THEN "running" ELSE "exit1"
  /\ UNCHANGED <<nextId, origin>>

\* case "0": process.exit(0)
MenuExit ==
  /\ Running /\ Chosen(<<"0">>)
  /\ status' = "exit0"
  /\ last' = Last("exit", "none")
  /\ UNCHANGED <<file, nextId, origin>>

\* default: "Lựa chọn không hợp lệ."
MenuInvalid ==
  /\ Running
  /\ \E choice \in Choices :
       trim(choice) \notin {<<"0">>, <<"1">>, <<"2">>, <<"3">>, <<"4">>, <<"5">>}
  /\ last' = Last("invalid", "none")
  /\ UNCHANGED <<file, nextId, origin, status>>

mainMenu ==
  MenuAdd \/ MenuUpdate \/ MenuDelete \/ MenuSearch \/ MenuList \/ MenuExit \/ MenuInvalid

ShellSpec == Init /\ [][mainMenu]_vars

-----------------------------------------------------------------------------
(* Properties of part_000, continued                                       *)

Blank == {<<>>, <<" ">>}

\* C7 (as stated): an update that supplies no field, update(id, {}) or the
\* menu's update with three blank answers, leaves the persisted content
\* byte-identical, whatever the backing file holds.
C7_NoFieldUpdateIdentical ==
  /\ \A id \in TargetIds :
       LET r == updateUser(file, id, NoUpdates, "ok")
       IN r.err = "none" => r.file = file
  /\ \A idRaw \in IdsRaw : \A n \in Blank : \A e \in Blank : \A a \in Blank :
       handleUpdate(file, idRaw, n, e, a, "ok").file = file

\* C7 (amended): the menu's update with three blank answers touches no file;
\* a successful update(id, {}) keeps every record and leaves the file in the
\* canonical two-space layout, hence byte-identical exactly when the file was
\* in that layout already.
C7_NoFieldUpdateCanonical ==
  /\ \A id \in TargetIds : \A io \in IOOutcomes :
       LET r == updateUser(file, id, NoUpdates, io)
       IN r.err = "none" =>
            /\ r.file.kind = "array" /\ r.file.pretty
            /\ r.file.users = file.users
            /\ (file.pretty <=> r.file = file)
  /\ \A idRaw \in IdsRaw : \A n \in Blank : \A e \in Blank : \A a \in Blank :
       \A io \in IOOutcomes :
         LET r == handleUpdate(file, idRaw, n, e, a, io)
         IN r.file = file /\ r.err \in {"nochange", "validation"}

\* An update has just succeeded on the record written by another program in
\* a compact layout: the file now is in the canonical layout.
C7_Witness ==
  /\ last = Last("update", "none")
  /\ origin = "other"
  /\ HasArray /\ file.pretty
  /\ file.users = <<User(OtherId, sAnn, sEmailA, NumAge(30))>>

\* The validation rules of a record.
ValidUser(u) ==
  /\ trim(u.name) # <<>>
  /\ isValidEmail(u.email)
  /\ u.age.tag = "absent" \/ (u.age.tag = "num" /\ u.age.n >= 0 /\ u.age.n <= 150)

AllValid(users) == \A i \in 1..Len(users) : ValidUser(users[i])

\* C8 (as stated): starting from an absent or empty backing file, every
\* record of the backing file satisfies the validation rules after any
\* sequence of menu actions; and an update that succeeds on the only record
\* of the store has not written back an invalid record.
C8_RecordsValid ==
  /\ (FromEmpty /\ HasArray) => AllValid(file.users)
  /\ (last = Last("update", "none") /\ HasArray /\ Len(file.users) = 1)
       => ValidUser(file.users[1])

\* C9 (as stated): load, which is all list does, reports no parse error for
\* a backing file that is not JSON or not an array, and after a load that
\* returned the backing file exists.
C9_LoadNeverReports ==
  /\ (last.op = "list" /\ file.kind \in {"garbage", "nonarray"})
       => last.err # "parse"
  /\ last = Last("list", "none") => file.kind # "absent"

\* C10 (as stated): in the menu loop a storage failure during any action
\* ends the process with exit status 1, and a validation, conflict or
\* not-found failure leaves the loop running.
C10_IOFailureIsFatal ==
  /\ last.err = "io" => status = "exit1"
  /\ last.err \in {"validation", "conflict", "notfound"} => status = "running"

-----------------------------------------------------------------------------
(* The program of part_001: storage, repository and handlers               *)

\* loadUsers (part_001, and src/src/main.ts): ENOENT returns the empty list
\* and creates nothing.
loadUsers_p1(f, io) ==
  IF f.kind = "absent" THEN [file |-> f, err |-> "none", users |-> <<>>]
  ELSE IF io = "readErr" THEN [file |-> f, err |-> "io", users |-> <<>>]
  ELSE IF f.kind = "garbage" THEN [file |-> f, err |-> "parse", users |-> <<>>]
  ELSE IF f.kind = "nonarray" THEN [file |-> f, err |-> "none", users |-> <<>>]
  ELSE [file |-> f, err |-> "none", users |-> f.users]

\* saveUsers (part_001): a write error is caught and logged, never thrown.
saveUsers_p1(f, users, io) ==
  IF io = "writeErr" THEN [file |-> f, err |-> "none"]
  ELSE IF io = "writeTorn" THEN [file |-> GarbageFile, err |-> "none"]
  ELSE [file |-> stringify(users), err |-> "none"]

addUser_p1(f, name, email, age, id, io) ==
  LET l == loadUsers_p1(f, io)
      user == User(id, name, email, age)
      s == saveUsers_p1(l.file, Append(l.users, user), io)
  IN IF l.err # "none" THEN Result(l.file, l.err, <<>>)
     ELSE Result(s.file, "none", <<user>>)

updateUser_p1(f, id, updates, io) ==
  LET l == loadUsers_p1(f, io)
      index == findIndex(l.users, id)
      updated == spread(l.users[index], updates)
      s == saveUsers_p1(l.file, [l.users EXCEPT ![index] = updated], io)
  IN IF l.err # "none" THEN Result(l.file, l.err, <<>>)
     ELSE IF index = 0 THEN Result(l.file, "notfound", <<>>)
     ELSE Result(s.file, "none", <<updated>>)

deleteUser_p1(f, id, io) ==
  LET l == loadUsers_p1(f, io)
      Other(u) == u.id # id
      filtered == SelectSeq(l.users, Other)
      s == saveUsers_p1(l.file, filtered, io)
  IN IF l.err # "none" THEN Result(l.file, l.err, <<>>)
     ELSE IF Len(filtered) = Len(l.users) THEN Result(l.file, "notfound", <<>>)
     ELSE Result(s.file, "none", <<>>)

searchUsers_p1(f, keyword, io) ==
  LET l == loadUsers_p1(f, io)
      k == toLowerCase(trim(keyword))
      Match(u) == \/ includes(toLowerCase(u.name), k)
                  \/ includes(toLowerCase(u.email), k)
  IN IF l.err # "none" THEN Result(l.file, l.err, <<>>)
     ELSE IF k = <<>> THEN Result(l.file, "none", l.users)
     ELSE Result(l.file, "none", SelectSeq(l.users, Match))

\* parseInt(s): leading white space, an optional sign, then the longest run
\* of digits; NaN when there is no digit.
parseInt(s) ==
  LET lead == {i \in 1..Len(s) : ~IsSpace(s[i])}
      t == IF lead = {} THEN <<>> ELSE SubSeq(s, SetMin(lead), Len(s))
      signed == t # <<>> /\ t[1] \in {"-", "+"}
      body == IF signed THEN Tail(t) ELSE t
      sign == IF signed /\ t[1] = "-" THEN -1 ELSE 1
      stop == {i \in 1..Len(body) : body[i] \notin Digits}
      run == IF stop = {} THEN body ELSE SubSeq(body, 1, SetMin(stop) - 1)
  IN IF run = <<>> THEN NaNAge ELSE NumAge(sign * DecVal(run))

handleAdd_p1(f, nameRaw, emailRaw, ageRaw, id, io) ==
  LET age == IF ageRaw # <<>> THEN parseInt(ageRaw) ELSE AbsentAge
  IN addUser_p1(f, nameRaw, emailRaw, age, id, io)

shellUpdates_p1(nameRaw, emailRaw, ageRaw) ==
  Updates(trim(nameRaw) # <<>>, trim(nameRaw),
          trim(emailRaw) # <<>>, trim(emailRaw),
          trim(ageRaw) # <<>>,
          IF trim(ageRaw) # <<>> THEN parseInt(trim(ageRaw)) ELSE AbsentAge)

handleUpdate_p1(f, idRaw, nameRaw, emailRaw, ageRaw, io) ==
  LET updates == shellUpdates_p1(nameRaw, emailRaw, ageRaw)
  IN IF updates = NoUpdates THEN Result(f, "nochange", <<>>)
     ELSE updateUser_p1(f, idRaw, updates, io)

handleDelete_p1(f, idRaw, io) == deleteUser_p1(f, idRaw, io)

handleSearch_p1(f, k, io) == searchUsers_p1(f, k, io)

-----------------------------------------------------------------------------
(* State machine: the menu loop of part_001 (the choice is not trimmed)    *)

Chosen_p1(c) == c \in Choices

\* Answers typed at the prompts of part_001, which trims neither the ids nor
\* the answers of handleAdd.
IdsRaw_p1 == {<<>>, sU1, OtherId}
NamesRaw_p1 == {<<>>, sAnn}
EmailsRaw_p1 == {<<>>, sEmailA}
AgesRaw_p1 == {<<>>, <<"x">>}

MenuAdd_p1 ==
  /\ Running /\ Chosen_p1(<<"1">>) /\ CanGrow
  /\ \E nameRaw \in NamesRaw_p1, emailRaw \in EmailsRaw_p1, ageRaw \in AgesRaw_p1, io \in IOOutcomes :
       LET r == handleAdd_p1(file, nameRaw, emailRaw, ageRaw, IdOf(nextId), io)
       IN /\ file' = r.file
          /\ nextId' = IF r.err = "none" THEN nextId + 1 ELSE nextId
          /\ last' = Last("add", r.err)
  /\ UNCHANGED <<origin, status>>

MenuUpdate_p1 ==
  /\ Running /\ Chosen_p1(<<"2">>)
  /\ \E idRaw \in IdsRaw_p1, nameRaw \in NamesRaw_p1, emailRaw \in EmailsRaw_p1,
        ageRaw \in AgesRaw_p1, io \in IOOutcomes :
       LET r == handleUpdate_p1(file, idRaw, nameRaw, emailRaw, ageRaw, io)
       IN /\ file' = r.file
          /\ last' = Last("update", r.err)
  /\ UNCHANGED <<nextId, origin, status>>

MenuDelete_p1 ==
  /\ Running /\ Chosen_p1(<<"3">>)
  /\ \E idRaw \in IdsRaw_p1, io \in IOOutcomes :
       LET r == handleDelete_p1(file, idRaw, io)
       IN /\ file' = r.file
          /\ last' = Last("delete", r.err)
  /\ UNCHANGED <<nextId, origin, status>>

MenuSearch_p1 ==
  /\ Running /\ Chosen_p1(<<"4">>)
  /\ \E k \in Keywords, io \in IOOutcomes :
       LET r == handleSearch_p1(file, k, io)
       IN /\ file' = r.file
          /\ last' = Last("search", r.err)
  /\ UNCHANGED <<nextId, origin, status>>

\* case "5": printUsers(await loadUsers()), outside any try.
MenuList_p1 ==
  /\ Running /\ Chosen_p1(<<"5">>)
  /\ \E io \in IOOutcomes :
       LET l == loadUsers_p1(file, io)
       IN /\ file' = l.file
          /\ last' = Last("list", l.err)
          /\ status' = IF l.err = "none" THEN "running" ELSE "exit1"
  /\ UNCHANGED <<nextId, origin>>

MenuExit_p1 ==
  /\ Running /\ Chosen_p1(<<"0">>)
  /\ status' = "exit0"
  /\ last' = Last("exit", "none")
  /\ UNCHANGED <<file, nextId, origin>>

MenuInvalid_p1 ==
  /\ Running
  /\ \E choice \in Choices :
       choice \notin {<<"0">>, <<"1">>, <<"2">>, <<"3">>, <<"4">>, <<"5">>}
  /\ last' = Last("invalid", "none")
  /\ UNCHANGED <<file, nextId, origin, status>>

main_p1 ==
  \/ MenuAdd_p1 \/ MenuUpdate_p1 \/ MenuDelete_p1 \/ MenuSearch_p1
  \/ MenuList_p1 \/ MenuExit_p1 \/ MenuInvalid_p1

ShellSpecP1 == Init /\ [][main_p1]_vars

-----------------------------------------------------------------------------
(* Properties of search                                                    *)

\* What the claim says search(keyword) returns on a store.
SearchAsClaimed(users, keyword) ==
  LET k == toLowerCase(trim(keyword))
      Match(u) == \/ includes(toLowerCase(u.id), k)
                  \/ includes(toLowerCase(u.name), k)
                  \/ includes(toLowerCase(u.email), k)
  IN SelectSeq(users, Match)

\* C6 (as stated), of the search and list of part_001: search returns, in
\* store order, exactly the records whose lower-cased id, name or email
\* contains the trimmed lower-cased keyword, every record for a blank
\* keyword, which is also what list returns; neither changes the records.
C6_SearchExact_p1 ==
  HasArray =>
    \A k \in Keywords :
      LET r == handleSearch_p1(file, k, "ok")
          l == loadUsers_p1(file, "ok")
      IN /\ r.err = "none"
         /\ r.ret = SearchAsClaimed(file.users, k)
         /\ (toLowerCase(trim(k)) = <<>> => r.ret = file.users /\ r.ret = l.users)
         /\ r.file = file /\ l.file = file

\* The same statement of the search and list of part_000, which holds.
Part000_SearchExact ==
  HasArray =>
    \A k \in Keywords :
      LET r == searchUsers(file, k, "ok")
          l == listUsers(file, "ok")
      IN /\ r.err = "none"
         /\ r.ret = SearchAsClaimed(file.users, k)
         /\ (toLowerCase(trim(k)) = <<>> => r.ret = file.users /\ r.ret = l.ret)
         /\ r.file = file /\ l.file = file

====
